---- MODULE Spec2Model ----
(***************************************************************************)
(* A model of the SEC Form 4 facade: the ticker-registry cache and the     *)
(* request handlers that use it (sec.service / form4.controller), the      *)
(* filing-list filter, the filing-document locator, and the transaction    *)
(* normalizer and classifier.                                              *)
(*                                                                         *)
(* Strings are sequences of one-character strings, so that case folding,   *)
(* suffix and substring tests, padding and numeric parsing are computed.   *)
(* JavaScript's undefined is the value Undefined; null is Null.            *)
(***************************************************************************)
EXTENDS Integers, Sequences, FiniteSets, TLC

VARIABLES
    now,                 \* Date.now(), in milliseconds
    ticks,               \* how many times the clock has been advanced
    tickerMapCache,      \* the cached registry snapshot, or Null
    tickerMapFetchedAt,  \* when the cached snapshot was stored
    fetchSeq,            \* registry fetches issued so far
    req,                 \* the requests in progress, by slot
    input,               \* the argument of a pure operation under check
    output               \* its result, or NoOutput before it has run

vars == <<now, ticks, tickerMapCache, tickerMapFetchedAt, fetchSeq, req,
          input, output>>

cacheVars == <<now, ticks, tickerMapCache, tickerMapFetchedAt, fetchSeq, req>>

Null == [t |-> "null"]
Undefined == [t |-> "undefined"]
NoOutput == [t |-> "none"]

\* a number: v / 10^e
JsDec(v, e) == [t |-> "num", v |-> v, e |-> e]
JsNum(n) == JsDec(n, 0)
NaN == [t |-> "nan"]
Infinity == [t |-> "inf"]
JsStr(s) == [t |-> "str", v |-> s]

Min(a, b) == IF a < b THEN a ELSE b

(***************************************************************************)
(* Bounds of the model.                                                    *)
(***************************************************************************)
MaxTicks == 2
MaxFetches == 3

(***************************************************************************)
(* Strings.                                                                *)
(***************************************************************************)
UpperAlpha ==
    <<"A", "B", "C", "D", "E", "F", "G", "H", "I", "J", "K", "L", "M",
      "N", "O", "P", "Q", "R", "S", "T", "U", "V", "W", "X", "Y", "Z">>

LowerAlpha ==
    <<"a", "b", "c", "d", "e", "f", "g", "h", "i", "j", "k", "l", "m",
      "n", "o", "p", "q", "r", "s", "t", "u", "v", "w", "x", "y", "z">>

DigitChars == <<"0", "1", "2", "3", "4", "5", "6", "7", "8", "9">>

IsIn(c, alphabet) == \E i \in 1..Len(alphabet) : alphabet[i] = c

IndexIn(c, alphabet) == CHOOSE i \in 1..Len(alphabet) : alphabet[i] = c

toUpperCase(s) ==
    [i \in 1..Len(s) |->
        IF IsIn(s[i], LowerAlpha) THEN UpperAlpha[IndexIn(s[i], LowerAlpha)]
        ELSE s[i]]

toLowerCase(s) ==
    [i \in 1..Len(s) |->
        IF IsIn(s[i], UpperAlpha) THEN LowerAlpha[IndexIn(s[i], UpperAlpha)]
        ELSE s[i]]

endsWith(s, suffix) ==
    /\ Len(suffix) <= Len(s)
    /\ SubSeq(s, Len(s) - Len(suffix) + 1, Len(s)) = suffix

includes(s, part) ==
    \E i \in 1..(Len(s) - Len(part) + 1) : SubSeq(s, i, i + Len(part) - 1) = part

padStart(s, width, fill) ==
    IF Len(s) >= width THEN s
    ELSE [i \in 1..width |->
            IF i <= width - Len(s) THEN fill ELSE s[i - (width - Len(s))]]

RECURSIVE NumToDigits(_)
NumToDigits(n) ==
    IF n < 10 THEN <<DigitChars[n + 1]>>
    ELSE NumToDigits(n \div 10) \o <<DigitChars[(n % 10) + 1]>>

\* String(v) of a whole number, a string, null or undefined
StringOf(v) ==
    CASE v.t = "num" -> NumToDigits(v.v)
      [] v.t = "str" -> v.v
      [] v.t = "null" -> <<"n", "u", "l", "l">>
      [] OTHER -> <<"u", "n", "d", "e", "f", "i", "n", "e", "d">>

\* a ?? b
Coalesce(a, b) == IF a = Undefined \/ a = Null THEN b ELSE a

(***************************************************************************)
(* The ticker registry.                                                    *)
(***************************************************************************)
CikWidth == 10

\* padding to one character less
padCikShort(cik) == padStart(StringOf(cik), CikWidth - 1, "0")

padCik(cik) == padStart(StringOf(cik), CikWidth, "0")

ONE_DAY == 24 * 60 * 60 * 1000

StartTime == 2 * ONE_DAY

TickSteps == {1, ONE_DAY - 1}

JsArr(seq) == [t |-> "arr", v |-> seq]

\* the characters of a string literal used by the code
S_AAPL == <<"A", "A", "P", "L">>
S_aapl == <<"a", "a", "p", "l">>
S_msft == <<"m", "s", "f", "t">>
S_Msft == <<"M", "s", "f", "t">>
S_4 == <<"4">>
S_4A == <<"4", "/", "A">>
S_4a == <<"4", "/", "a">>
S_10K == <<"1", "0", "-", "K">>
S_144 == <<"1", "4", "4">>

\* one entry of company_tickers.json; src records which fetch delivered it
Row(ticker, cik_str, cik) ==
    [ticker |-> ticker, cik_str |-> cik_str, cik |-> cik, src |-> 0]

RowApple == Row(JsStr(S_AAPL), JsNum(320193), Undefined)
RowMicrosoft == Row(JsStr(S_msft), Undefined, JsStr(<<"7", "8", "9", "0", "1", "9">>))

\* the two wire shapes of the registry: an array, or an object keyed by row number
RegistryBodies ==
    { JsArr(<<RowApple, RowMicrosoft>>),
      [t |-> "obj", v |-> [k \in 0..0 |-> RowApple]] }

RegistryResponses ==
    {[ok |-> FALSE, data |-> Null]} \cup {[ok |-> TRUE, data |-> d] : d \in RegistryBodies}

\* Object.values(data): the values in ascending key order
ObjectValues(obj) == [i \in 1..Cardinality(DOMAIN obj) |-> obj[i - 1]]

\* Array.isArray(data) ? data : Object.values(data)   (the rows of fetch id)
NormalizeRegistry(data, id) ==
    LET rows == IF data.t = "arr" THEN data.v ELSE ObjectValues(data.v)
    IN  JsArr([i \in 1..Len(rows) |-> [rows[i] EXCEPT !.src = id]])

\* a snapshot taken for fresh whatever its age
FreshForever(cache, fetchedAt, t) == cache # Null

\* tickerMapCache && Date.now() - tickerMapFetchedAt < ONE_DAY
Fresh(cache, fetchedAt, t) == cache # Null /\ t - fetchedAt < ONE_DAY

\* the fetched rows appended to the cached ones
MergeSnapshot(cache, arr) ==
    IF cache = Null THEN arr ELSE JsArr(cache.v \o arr.v)

\* tickerMapCache = arr
StoreSnapshot(cache, arr) == arr

\* tickerMapFetchedAt = Date.now()
StoreStamp(fetchedAt, t) == t

\* map.find((x) => String(x.ticker).toUpperCase() === ticker)
FindRow(map, ticker) ==
    LET hits == {i \in 1..Len(map.v) :
                    toUpperCase(StringOf(map.v[i].ticker)) = ticker}
    IN  IF hits = {} THEN Undefined
        ELSE map.v[CHOOSE i \in hits : \A j \in hits : i <= j]

IsError(result) == "error" \in DOMAIN result

\* getCikForTicker once getTickerMap has returned map
getCikForTicker(map, tickerRaw) ==
    LET ticker == toUpperCase(tickerRaw)
        row == FindRow(map, ticker)
    IN  IF row = Undefined THEN [error |-> "Ticker not found"]
        ELSE [ticker |-> ticker, cik |-> padCik(Coalesce(row.cik_str, row.cik))]

(***************************************************************************)
(* The filing-list filter.                                                 *)
(***************************************************************************)
Limit == 25

At(arr, i) == IF i <= Len(arr) THEN arr[i] ELSE Undefined

slice(arr, n) == SubSeq(arr, 1, Min(Len(arr), n))

\* the loop of getRecentForm4FilingsByTicker over recent.form
MatchingFilings(recent) ==
    LET forms == Coalesce(recent.form, JsArr(<<>>)).v
        accessionNumbers == Coalesce(recent.accessionNumber, JsArr(<<>>)).v
        filingDates == Coalesce(recent.filingDate, JsArr(<<>>)).v
        primaryDocs == Coalesce(recent.primaryDocument, JsArr(<<>>)).v
        reportDates == Coalesce(recent.reportDate, JsArr(<<>>)).v
        idx == SelectSeq([i \in 1..Len(forms) |-> i],
                         LAMBDA i : forms[i] = JsStr(S_4) \/ forms[i] = JsStr(S_4A))
    IN  [k \in 1..Len(idx) |->
            [form |-> forms[idx[k]],
             accessionNumber |-> At(accessionNumbers, idx[k]),
             filingDate |-> At(filingDates, idx[k]),
             reportDate |-> At(reportDates, idx[k]),
             primaryDocument |-> At(primaryDocs, idx[k])]]

\* the same with the history cut to 25 filings before the loop
sliceThenFilter(submissions) ==
    LET recent == IF submissions.filings = Undefined THEN Undefined
                  ELSE submissions.filings.recent
    IN  IF recent = Undefined \/ recent = Null THEN <<>>
        ELSE MatchingFilings(
                [recent EXCEPT !.form =
                    IF recent.form = Undefined THEN Undefined
                    ELSE JsArr(slice(recent.form.v, Limit))])

\* submissions?.filings?.recent, the loop, and out.slice(0, 25)
recentFilings(submissions) ==
    LET recent == IF submissions.filings = Undefined THEN Undefined
                  ELSE submissions.filings.recent
    IN  IF recent = Undefined \/ recent = Null THEN <<>>
        ELSE slice(MatchingFilings(recent), Limit)

(***************************************************************************)
(* The request handlers: getCik and getRecentByTicker over getCikForTicker *)
(* and getTickerMap.  A request suspends at each network round trip and at *)
(* the return of getTickerMap; other requests run in between.              *)
(***************************************************************************)
Slots == {1, 2}

Kinds == {"cik", "recent"}

TickerInputs == {S_Msft}

\* fetches: the upstream fetches the request has issued so far, in order,
\* each with how it came back; cik, accession, items: the query parameters
\* and the directory listing of a request for a filing's document
Idle ==
    [pc |-> "idle", kind |-> "cik", tickerRaw |-> <<>>, map |-> Null,
     fetchId |-> 0, age |-> -1, status |-> 0, result |-> Null,
     cik |-> <<>>, accession |-> <<>>, items |-> <<>>, fetches |-> <<>>]

\* await fetch(url, ...): the request issues a fetch and suspends
Issue(fetches, step) == Append(fetches, [step |-> step, outcome |-> "pending"])

\* the fetch returns; res.ok tells a success status from any other
Settle(fetches, ok) ==
    [fetches EXCEPT ![Len(fetches)].outcome = IF ok THEN "ok" ELSE "failed"]

\* the filing histories the submissions feed answers with in this specification
SmallHistories ==
    { [filings |-> Undefined],
      [filings |-> [recent |->
          [form |-> JsArr(<<JsStr(S_10K), JsStr(S_4), JsStr(S_4A)>>),
           accessionNumber |-> JsArr(<<JsNum(1), JsNum(2), JsNum(3)>>),
           filingDate |-> JsArr(<<JsNum(11), JsNum(12), JsNum(13)>>),
           reportDate |-> JsArr(<<JsNum(21), JsNum(22), JsNum(23)>>),
           primaryDocument |-> JsArr(<<JsNum(31), JsNum(32)>>)]]] }

SubmissionsResponses ==
    {[ok |-> FALSE, data |-> Null]} \cup {[ok |-> TRUE, data |-> d] : d \in SmallHistories}

\* the status each controller's catch block answers a thrown error with
ErrorStatus(kind, message) ==
    IF kind = "cik" /\ message = "Ticker not found" THEN 404 ELSE 500

Fail(r, message) ==
    [req[r] EXCEPT !.pc = "done", !.map = Null, !.fetchId = 0, !.age = -1,
                   !.status = ErrorStatus(req[r].kind, message),
                   !.result = [error |-> message]]

\* the same with the failed fetch issued once more instead of the throw
RetryFetch(r, message) ==
    LET fetches == req[r].fetches
    IN  IF Len(fetches) < 3
        THEN [req[r] EXCEPT !.fetches =
                Issue(Settle(fetches, FALSE), fetches[Len(fetches)].step)]
        ELSE [Fail(r, message) EXCEPT !.fetches = Settle(fetches, FALSE)]

\* if (!res.ok) throw ...: the fetch in flight came back with another status
FailFetch(r, message) ==
    [Fail(r, message) EXCEPT !.fetches = Settle(req[r].fetches, FALSE)]

\* Date.now() - tickerMapFetchedAt as the freshness test sees it (-1: no snapshot)
SnapshotAge == IF tickerMapCache = Null THEN -1 ELSE now - tickerMapFetchedAt

\* a request arrives; the handler runs to getTickerMap's freshness test
StartRequest(r, kind, tickerRaw) ==
    /\ req[r].pc = "idle"
    /\ IF Fresh(tickerMapCache, tickerMapFetchedAt, now)
       THEN /\ req' = [req EXCEPT ![r] =
                        [Idle EXCEPT !.pc = "lookup", !.kind = kind,
                                     !.tickerRaw = tickerRaw,
                                     !.age = SnapshotAge,
                                     !.map = tickerMapCache]]
            /\ UNCHANGED fetchSeq
       ELSE /\ fetchSeq < MaxFetches
            /\ fetchSeq' = fetchSeq + 1
            /\ req' = [req EXCEPT ![r] =
                        [Idle EXCEPT !.pc = "awaitRegistry", !.kind = kind,
                                     !.tickerRaw = tickerRaw,
                                     !.age = SnapshotAge,
                                     !.fetchId = fetchSeq + 1,
                                     !.fetches = Issue(<<>>, "registry")]]
    /\ UNCHANGED <<now, ticks, tickerMapCache, tickerMapFetchedAt, input, output>>

\* the same with the time of the failed attempt recorded as a fetch time
StampOfAttempt(fetchedAt, t) == t

\* throw new Error("Failed to fetch ticker map"): the two assignments that
\* follow the test are not reached, the snapshot and its time stay
KeptSnapshot(cache) == cache

KeptStamp(fetchedAt, t) == fetchedAt

\* the registry fetch of request r returns
RegistryReturns(r, res) ==
    /\ req[r].pc = "awaitRegistry"
    /\ IF ~res.ok
       THEN /\ req' = [req EXCEPT ![r] = FailFetch(r, "Failed to fetch ticker map")]
            /\ tickerMapCache' = KeptSnapshot(tickerMapCache)
            /\ tickerMapFetchedAt' = KeptStamp(tickerMapFetchedAt, now)
       ELSE LET arr == NormalizeRegistry(res.data, req[r].fetchId)
            IN  /\ tickerMapCache' = StoreSnapshot(tickerMapCache, arr)
                /\ tickerMapFetchedAt' = StoreStamp(tickerMapFetchedAt, now)
                /\ req' = [req EXCEPT ![r].pc = "lookup", ![r].map = arr,
                                      ![r].fetchId = 0,
                                      ![r].fetches = Settle(req[r].fetches, TRUE)]
    /\ UNCHANGED <<now, ticks, fetchSeq, input, output>>

\* getCikForTicker resumes with the map: find the row, pad its identifier
Lookup(r) ==
    /\ req[r].pc = "lookup"
    /\ LET found == getCikForTicker(req[r].map, req[r].tickerRaw)
       IN  req' = [req EXCEPT ![r] =
                IF IsError(found) THEN Fail(r, found.error)
                ELSE IF req[r].kind = "cik"
                THEN [req[r] EXCEPT !.pc = "done", !.map = Null, !.age = -1,
                                    !.status = 200, !.result = found]
                ELSE [req[r] EXCEPT !.pc = "awaitSubmissions", !.map = Null,
                                    !.age = -1, !.result = found,
                                    !.fetches = Issue(req[r].fetches, "submissions")]]
    /\ UNCHANGED <<now, ticks, tickerMapCache, tickerMapFetchedAt, fetchSeq,
                   input, output>>

\* the filing-history fetch of request r returns
SubmissionsReturns(r, res) ==
    /\ req[r].pc = "awaitSubmissions"
    /\ req' = [req EXCEPT ![r] =
            IF ~res.ok THEN FailFetch(r, "Submissions fetch failed")
            ELSE [req[r] EXCEPT
                    !.pc = "done", !.status = 200,
                    !.fetches = Settle(req[r].fetches, TRUE),
                    !.result = [ticker |-> req[r].result.ticker,
                                cik |-> req[r].result.cik,
                                filings |-> recentFilings(res.data)]]]
    /\ UNCHANGED <<now, ticks, tickerMapCache, tickerMapFetchedAt, fetchSeq,
                   input, output>>

\* the response has been sent; the slot takes the next request
Finish(r) ==
    /\ req[r].pc = "done"
    /\ req' = [req EXCEPT ![r] = Idle]
    /\ UNCHANGED <<now, ticks, tickerMapCache, tickerMapFetchedAt, fetchSeq,
                   input, output>>

\* time passes
Tick(d) ==
    /\ ticks < MaxTicks
    /\ ticks' = ticks + 1
    /\ now' = now + d
    /\ UNCHANGED <<tickerMapCache, tickerMapFetchedAt, fetchSeq, req, input, output>>

Init ==
    /\ now = StartTime
    /\ ticks = 0
    /\ tickerMapCache = Null
    /\ tickerMapFetchedAt = 0
    /\ fetchSeq = 0
    /\ req = [r \in Slots |-> Idle]
    /\ input = NoOutput
    /\ output = NoOutput

Next ==
    \/ \E r \in Slots, kind \in Kinds, tickerRaw \in TickerInputs :
          StartRequest(r, kind, tickerRaw)
    \/ \E r \in Slots, res \in RegistryResponses : RegistryReturns(r, res)
    \/ \E r \in Slots : Lookup(r)
    \/ \E r \in Slots, res \in SubmissionsResponses : SubmissionsReturns(r, res)
    \/ \E r \in Slots : Finish(r)
    \/ \E d \in TickSteps : Tick(d)

Spec == Init /\ [][Next]_vars

(***************************************************************************)
(* Properties of the registry cache under concurrent requests.             *)
(***************************************************************************)
RegistryFetchesInFlight == {r \in Slots : req[r].pc = "awaitRegistry"}

\* C1: calls made within one freshness window, calls that overlap at the
\* registry fetch included, issue at most one registry fetch between them:
\* no two registry fetches are ever in flight together.
C1_AtMostOneFetchInWindow == Cardinality(RegistryFetchesInFlight) <= 1

WholeSnapshot(s) ==
    \E d \in RegistryBodies, id \in 1..MaxFetches : s = NormalizeRegistry(d, id)

SnapshotOf(id) == {NormalizeRegistry(d, id) : d \in RegistryBodies}

\* C2, as stated: the fetch of the call that found the snapshot's 24 hours
\* elapsed always ends with the snapshot and its timestamp replaced by what
\* that fetch delivered.
C2_FetchAlwaysReplaces ==
    [][\A r \in Slots :
          (/\ req[r].pc = "awaitRegistry"
           /\ req[r].age >= ONE_DAY
           /\ req'[r].pc # "awaitRegistry")
          => /\ tickerMapCache' \in SnapshotOf(req[r].fetchId)
             /\ tickerMapFetchedAt' = now]_vars

\* C2, amended: a call that starts while a snapshot younger than 24 hours is
\* cached issues no fetch and takes the cached snapshot; a call that starts
\* with no snapshot or one aged 24 hours or more issues exactly one fetch;
\* that fetch, when it returns a success status, replaces the snapshot and
\* its timestamp together; no fetch is issued at any other step.
C2_FreshnessWindow ==
    [][/\ \A r \in Slots :
            /\ (req[r].pc = "idle" /\ req'[r].pc # "idle")
               => IF tickerMapCache # Null /\ now - tickerMapFetchedAt < ONE_DAY
                  THEN /\ fetchSeq' = fetchSeq
                       /\ req'[r].pc = "lookup"
                       /\ req'[r].map = tickerMapCache
                  ELSE /\ fetchSeq' = fetchSeq + 1
                       /\ req'[r].pc = "awaitRegistry"
                       /\ req'[r].fetchId = fetchSeq'
            /\ (req[r].pc = "awaitRegistry" /\ req'[r].pc = "lookup")
               => /\ tickerMapCache' \in SnapshotOf(req[r].fetchId)
                  /\ tickerMapFetchedAt' = now
                  /\ req'[r].map = tickerMapCache'
       /\ fetchSeq' # fetchSeq
          => \E r \in Slots : req[r].pc = "idle" /\ req'[r].pc = "awaitRegistry"
      ]_vars

\* the window of the first snapshot has elapsed, the call that found it expired
\* has fetched and replaced it, and a later call has taken the new snapshot
\* without fetching
C2_Witness ==
    \E r1, r2 \in Slots :
        /\ req[r1].pc = "lookup" /\ req[r1].age >= ONE_DAY
        /\ req[r1].map = tickerMapCache
        /\ req[r2].pc = "lookup" /\ req[r2].age >= 0 /\ req[r2].age < ONE_DAY
        /\ req[r2].map = tickerMapCache
        /\ fetchSeq = 2

\* C3: the cached snapshot and every snapshot a request holds is one whole
\* fetched snapshot, never a mix of two; a snapshot is cached iff a timestamp
\* is set; and the snapshot and the timestamp only ever change together, in
\* one step, to a whole fetched snapshot stamped with the current time.
C3_AtomicReplacement ==
    /\ [](/\ tickerMapCache = Null \/ WholeSnapshot(tickerMapCache)
          /\ (tickerMapCache = Null) <=> (tickerMapFetchedAt = 0)
          /\ \A r \in Slots : req[r].map = Null \/ WholeSnapshot(req[r].map))
    /\ [][(tickerMapCache' # tickerMapCache \/ tickerMapFetchedAt' # tickerMapFetchedAt)
          => /\ tickerMapCache' # tickerMapCache
             /\ WholeSnapshot(tickerMapCache')
             /\ tickerMapFetchedAt' = now']_vars

\* a request still holds the snapshot it read while the cache already holds
\* the one a later fetch delivered
C3_Witness ==
    \E r \in Slots :
        /\ req[r].pc = "lookup"
        /\ tickerMapCache # Null
        /\ req[r].map # tickerMapCache
        /\ req[r].map.v[1].src < tickerMapCache.v[1].src

\* C10: a request whose ticker is absent from the snapshot it looks up ends
\* with the client-facing not-found status 404, whichever handler serves it,
\* and without a filing-history fetch.
C10_AbsentTickerIsNotFound ==
    [][\A r \in Slots :
          (/\ req[r].pc = "lookup"
           /\ req'[r].pc # "lookup"
           /\ FindRow(req[r].map, toUpperCase(req[r].tickerRaw)) = Undefined)
          => /\ req'[r].pc = "done"
             /\ req'[r].status = 404]_vars

\* the registry fetch of request r comes back with a non-success status
RegistryFetchFails(r) ==
    /\ req[r].pc = "awaitRegistry"
    /\ req'[r].pc = "done"
    /\ req'[r].fetches = <<[step |-> "registry", outcome |-> "failed"]>>

\* C13: a registry fetch that comes back with a non-success status leaves
\* the cached snapshot and its timestamp as they were, so a missing snapshot
\* stays missing and a stale one stale, and the failing request ends with an
\* error instead of a snapshot; a call that finds the snapshot missing or
\* stale fetches, a failed attempt before it or not; the timestamp changes
\* only in a step that replaces the snapshot with a fetched one, and never
\* decreases.
C13_FailedFetchKeepsSnapshot ==
    [][/\ \A r \in Slots :
            RegistryFetchFails(r)
            => /\ tickerMapCache' = tickerMapCache
               /\ tickerMapFetchedAt' = tickerMapFetchedAt
               /\ Fresh(tickerMapCache', tickerMapFetchedAt', now')
                    = Fresh(tickerMapCache, tickerMapFetchedAt, now)
               /\ req'[r].map = Null
               /\ req'[r].result = [error |-> "Failed to fetch ticker map"]
               /\ req'[r].status = 500
       /\ \A r \in Slots :
            (req[r].pc = "idle" /\ req'[r].pc # "idle"
             /\ ~Fresh(tickerMapCache, tickerMapFetchedAt, now))
            => /\ req'[r].pc = "awaitRegistry"
               /\ req'[r].fetches = <<[step |-> "registry", outcome |-> "pending"]>>
       /\ tickerMapFetchedAt' # tickerMapFetchedAt
          => /\ tickerMapCache' # tickerMapCache
             /\ \E r \in Slots :
                  /\ req[r].pc = "awaitRegistry"
                  /\ req'[r].fetches = <<[step |-> "registry", outcome |-> "ok"]>>
                  /\ tickerMapCache' = req'[r].map
       /\ tickerMapFetchedAt' >= tickerMapFetchedAt]_vars

\* a fetch has failed while the snapshot was stale: the snapshot is still
\* there and still stale, the failing request has its error, and the next
\* call is fetching
C13_Witness ==
    \E r, q \in Slots :
        /\ req[r].pc = "done"
        /\ req[r].result = [error |-> "Failed to fetch ticker map"]
        /\ tickerMapCache # Null
        /\ now - tickerMapFetchedAt >= ONE_DAY
        /\ req[q].pc = "awaitRegistry"
        /\ req[q].age >= ONE_DAY
        /\ req[q].fetchId = 3

(***************************************************************************)
(* resolveTicker as a function of the snapshot and the ticker.             *)
(***************************************************************************)
S_Aapl == <<"A", "a", "p", "L">>
S_zzzz == <<"z", "z", "z", "z">>
S_320193 == <<"3", "2", "0", "1", "9", "3">>
S_0000320193 == <<"0", "0", "0", "0", "3", "2", "0", "1", "9", "3">>
S_9999999999 == <<"9", "9", "9", "9", "9", "9", "9", "9", "9", "9">>

\* registrant identifiers as the registry gives them: numbers, or digit strings
CikValues ==
    { JsNum(1), JsNum(320193), JsNum(1000000000), JsNum(2147483647),
      JsStr(S_320193), JsStr(S_0000320193), JsStr(S_9999999999) }

RegistryRows ==
    { Row(JsStr(t), c, Undefined) : t \in {S_AAPL, S_aapl, S_Aapl, S_msft}, c \in CikValues }
    \cup { Row(JsStr(t), Undefined, c) : t \in {S_AAPL, S_msft}, c \in CikValues }

ResolveInputs ==
    { [map |-> JsArr(rows), tickerRaw |-> t] :
        rows \in {<<r>> : r \in RegistryRows}
                 \cup {<<RowMicrosoft, r>> : r \in RegistryRows}
                 \cup {<<>>},
        t \in {S_aapl, S_AAPL, S_Msft, S_zzzz} }

InitResolve ==
    /\ now = StartTime
    /\ ticks = 0
    /\ tickerMapCache = Null
    /\ tickerMapFetchedAt = 0
    /\ fetchSeq = 0
    /\ req = [r \in Slots |-> Idle]
    /\ input \in ResolveInputs
    /\ output = NoOutput

ResolveTicker ==
    /\ output = NoOutput
    /\ output' = getCikForTicker(input.map, input.tickerRaw)
    /\ UNCHANGED <<cacheVars, input>>

SpecResolve == InitResolve /\ [][ResolveTicker]_vars

\* the entries of map whose ticker is tickerRaw up to letter case
EntriesFor(map, tickerRaw) ==
    {i \in 1..Len(map.v) :
        toLowerCase(StringOf(map.v[i].ticker)) = toLowerCase(tickerRaw)}

\* the identifier of an entry, under whichever field name it uses
IdentifierOf(row) == IF row.cik_str # Undefined THEN row.cik_str ELSE row.cik

IsZeroPadded(padded, digits) ==
    /\ Len(padded) = CikWidth
    /\ \A i \in 1..Len(padded) : IsIn(padded[i], DigitChars)
    /\ SubSeq(padded, Len(padded) - Len(digits) + 1, Len(padded)) = digits
    /\ \A i \in 1..(Len(padded) - Len(digits)) : padded[i] = "0"

\* C9: for a ticker the snapshot holds, matched without regard to letter
\* case, resolveTicker returns the ticker in upper case and an identifier of
\* exactly 10 decimal digits: the first matching entry's identifier, under
\* whichever field name it has, left-padded with zeros.
C9_TenDigitIdentifier ==
    (output # NoOutput /\ EntriesFor(input.map, input.tickerRaw) # {})
    => LET first == CHOOSE i \in EntriesFor(input.map, input.tickerRaw) :
                        \A j \in EntriesFor(input.map, input.tickerRaw) : i <= j
       IN  /\ ~IsError(output)
           /\ output.ticker = toUpperCase(input.tickerRaw)
           /\ \A i \in 1..Len(output.ticker) : ~IsIn(output.ticker[i], LowerAlpha)
           /\ IsZeroPadded(output.cik, StringOf(IdentifierOf(input.map.v[first])))

\* "aapl" resolved against an entry "AAPL" with cik_str 320193: "0000320193"
C9_Witness ==
    /\ output # NoOutput
    /\ input.tickerRaw = S_aapl
    /\ input.map = JsArr(<<RowApple>>)
    /\ output = [ticker |-> S_AAPL, cik |-> S_0000320193]

(***************************************************************************)
(* The filing-document locator: the choice findForm4XmlUrl makes among the *)
(* files of a directory listing.                                           *)
(***************************************************************************)
MaxListing == 3

S_xml == <<".", "x", "m", "l">>
S_form4 == <<"f", "o", "r", "m", "4">>
F_form4 == <<"f", "o", "r", "m", "4", ".", "x", "m", "l">>
F_primary == <<"p", "r", "i", "m", "a", "r", "y", "_", "d", "o", "c", ".", "x", "m", "l">>
F_doc1 == <<"d", "o", "c", "1", ".", "x", "m", "l">>
F_Doc1Upper == <<"D", "o", "c", "1", ".", "X", "M", "L">>
F_random == <<"r", "a", "n", "d", "o", "m", ".", "x", "m", "l">>
F_wfForm4 == <<"w", "f", "-", "F", "o", "r", "m", "4", "_", "1", ".", "X", "m", "l">>
F_form4txt == <<"f", "o", "r", "m", "4", ".", "t", "x", "t">>

preferredOrder == <<F_form4, F_primary, F_doc1>>

\* the entries a listing is made of; one has no name
ListingItems ==
    { [name |-> JsStr(f)] :
        f \in {F_form4, F_primary, F_doc1, F_Doc1Upper, F_random, F_wfForm4,
               F_form4txt} }
    \cup { [name |-> Undefined] }

RECURSIVE SeqsUpTo(_, _)
SeqsUpTo(S, n) ==
    IF n = 0 THEN {<<>>}
    ELSE LET shorter == SeqsUpTo(S, n - 1)
         IN  shorter \cup {Append(q, x) : q \in {p \in shorter : Len(p) = n - 1}, x \in S}

Listings == SeqsUpTo(ListingItems, MaxListing)

\* String(x?.name || "")
NameOf(item) ==
    IF item.name = Undefined \/ item.name = JsStr(<<>>) THEN <<>>
    ELSE StringOf(item.name)

\* items.map(...).filter((name) => name.toLowerCase().endsWith(".xml"))
XmlFiles(items) ==
    SelectSeq([i \in 1..Len(items) |-> NameOf(items[i])],
              LAMBDA name : endsWith(toLowerCase(name), S_xml))

IsPreferred(f) == \E k \in 1..Len(preferredOrder) : preferredOrder[k] = toLowerCase(f)

ContainsForm4(f) == includes(toLowerCase(f), S_form4)

\* xmlFiles.find((f) => preferredOrder.includes(lower(f))), as an index or 0
FindPreferred(files) ==
    IF \E i \in 1..Len(files) : IsPreferred(files[i])
    THEN CHOOSE i \in 1..Len(files) :
            IsPreferred(files[i]) /\ \A j \in 1..(i - 1) : ~IsPreferred(files[j])
    ELSE 0

\* xmlFiles.find((f) => lower(f).includes("form4")), as an index or 0
FindForm4(files) ==
    IF \E i \in 1..Len(files) : ContainsForm4(files[i])
    THEN CHOOSE i \in 1..Len(files) :
            ContainsForm4(files[i]) /\ \A j \in 1..(i - 1) : ~ContainsForm4(files[j])
    ELSE 0

\* the same choice with the "form4" test tried before the preference list
ChooseForm4First(xmlFiles) ==
    IF FindForm4(xmlFiles) # 0 THEN xmlFiles[FindForm4(xmlFiles)]
    ELSE IF FindPreferred(xmlFiles) # 0 THEN xmlFiles[FindPreferred(xmlFiles)]
    ELSE xmlFiles[1]

\* the same with the preference list walked in its own order: the file named
\* like its first entry, else like its second, else like its third
ChooseByPreferenceOrder(xmlFiles) ==
    LET named(k) == {i \in 1..Len(xmlFiles) : toLowerCase(xmlFiles[i]) = preferredOrder[k]}
        ranks == {k \in 1..Len(preferredOrder) : named(k) # {}}
    IN  IF ranks # {}
        THEN LET k == CHOOSE x \in ranks : \A y \in ranks : x <= y
             IN  xmlFiles[CHOOSE i \in named(k) : \A j \in named(k) : i <= j]
        ELSE IF FindForm4(xmlFiles) # 0 THEN xmlFiles[FindForm4(xmlFiles)]
        ELSE xmlFiles[1]

\* find(preferred) ?? find(contains "form4") ?? xmlFiles[0]
Choose(xmlFiles) ==
    IF FindPreferred(xmlFiles) # 0 THEN xmlFiles[FindPreferred(xmlFiles)]
    ELSE IF FindForm4(xmlFiles) # 0 THEN xmlFiles[FindForm4(xmlFiles)]
    ELSE xmlFiles[1]

\* the same without the test for an empty xmlFiles: xmlFiles[0] is undefined
findForm4XmlUnchecked(items) ==
    LET xmlFiles == XmlFiles(items)
    IN  IF Len(xmlFiles) = 0 THEN [xmlFilename |-> StringOf(Undefined)]
        ELSE [xmlFilename |-> Choose(xmlFiles)]

\* findForm4XmlUrl once the listing has been fetched
findForm4Xml(items) ==
    LET xmlFiles == XmlFiles(items)
    IN  IF Len(xmlFiles) = 0 THEN [error |-> "No XML files found in index.json"]
        ELSE [xmlFilename |-> Choose(xmlFiles)]

InitLocate ==
    /\ now = StartTime
    /\ ticks = 0
    /\ tickerMapCache = Null
    /\ tickerMapFetchedAt = 0
    /\ fetchSeq = 0
    /\ req = [r \in Slots |-> Idle]
    /\ input \in Listings
    /\ output = NoOutput

Locate ==
    /\ output = NoOutput
    /\ output' = findForm4Xml(input)
    /\ UNCHANGED <<cacheVars, input>>

SpecLocate == InitLocate /\ [][Locate]_vars

\* the names of a listing that end in ".xml", whatever the letter case
XmlNames(items) ==
    {NameOf(items[i]) : i \in {j \in 1..Len(items) :
        endsWith(toLowerCase(NameOf(items[j])), S_xml)}}

FirstXmlName(items) ==
    NameOf(items[CHOOSE i \in 1..Len(items) :
        /\ endsWith(toLowerCase(NameOf(items[i])), S_xml)
        /\ \A j \in 1..(i - 1) : ~endsWith(toLowerCase(NameOf(items[j])), S_xml)])

ExactNames == {F_form4, F_primary, F_doc1}

\* C4: among the listing's ".xml" files, a file named like one of the
\* preference list is chosen if there is one; otherwise a file whose name
\* contains "form4" if there is one; otherwise the first ".xml" file.  A
\* listing of "primary_doc.xml" and "random.xml" yields "primary_doc.xml" in
\* either order, and a listing of "random.xml" alone yields "random.xml".
C4_SelectionPolicy ==
    (output # NoOutput /\ XmlNames(input) # {})
    => /\ ~IsError(output)
       /\ output.xmlFilename \in XmlNames(input)
       /\ IF \E f \in XmlNames(input) : toLowerCase(f) \in ExactNames
          THEN toLowerCase(output.xmlFilename) \in ExactNames
          ELSE IF \E f \in XmlNames(input) : includes(toLowerCase(f), S_form4)
          THEN includes(toLowerCase(output.xmlFilename), S_form4)
          ELSE output.xmlFilename = FirstXmlName(input)
       /\ (/\ {F_primary, F_random} \subseteq XmlNames(input)
           /\ \A f \in XmlNames(input) : toLowerCase(f) \in ExactNames => f = F_primary)
          => output.xmlFilename = F_primary
       /\ XmlNames(input) = {F_random} => output.xmlFilename = F_random

\* "random.xml" listed before "primary_doc.xml": "primary_doc.xml" is chosen
C4_Witness ==
    /\ output # NoOutput
    /\ input = <<[name |-> JsStr(F_random)], [name |-> JsStr(F_primary)]>>
    /\ output = [xmlFilename |-> F_primary]

\* the positions of a listing whose name ends in ".xml", whatever the case
XmlPlaces(items) ==
    {i \in 1..Len(items) : endsWith(toLowerCase(NameOf(items[i])), S_xml)}

\* the name at the least of a set of positions of the listing
FirstOf(items, places) ==
    NameOf(items[CHOOSE i \in places : \A j \in places : i <= j])

\* C14: when several ".xml" files of the listing are named like entries of
\* the preference list, the one that comes first in the listing is chosen,
\* whatever its rank in the preference list: "doc1.xml" listed before
\* "form4.xml" yields "doc1.xml".  When none is, the first file in listing
\* order whose name contains "form4" is chosen.  The chosen name is one of
\* the listing's ".xml" names, letter for letter.
C14_FirstInListingOrder ==
    (output # NoOutput /\ ~IsError(output))
    => LET exact == {i \in XmlPlaces(input) :
                        toLowerCase(NameOf(input[i])) \in ExactNames}
           form4 == {i \in XmlPlaces(input) :
                        includes(toLowerCase(NameOf(input[i])), S_form4)}
       IN  /\ exact # {} => output.xmlFilename = FirstOf(input, exact)
           /\ (exact = {} /\ form4 # {}) => output.xmlFilename = FirstOf(input, form4)
           /\ \E i \in XmlPlaces(input) : output.xmlFilename = NameOf(input[i])
           /\ input = <<[name |-> JsStr(F_doc1)], [name |-> JsStr(F_form4)]>>
              => output.xmlFilename = F_doc1

\* "Doc1.XML" listed before "form4.xml" and "primary_doc.xml": "Doc1.XML" is
\* chosen, in the listing's spelling
C14_Witness ==
    /\ output # NoOutput
    /\ input = <<[name |-> JsStr(F_Doc1Upper)], [name |-> JsStr(F_form4)],
                 [name |-> JsStr(F_primary)]>>
    /\ output = [xmlFilename |-> F_Doc1Upper]

(***************************************************************************)
(* The filing-list filter as a function of the filing history.             *)
(***************************************************************************)
MaxHistory == 30
Prefix == Limit + 1

\* the form type at position i of the history laid out by pattern p
FormAt(p, i) ==
    CASE p = 1 -> S_4
      [] p = 2 -> IF i % 2 = 1 THEN S_4 ELSE S_4A
      [] p = 3 -> IF i <= Prefix THEN S_10K ELSE S_4
      [] p = 4 -> IF i % 3 = 0 THEN S_4A ELSE S_144
      [] p = 5 -> IF i % 2 = 1 THEN S_4a ELSE S_144
      [] OTHER -> IF i % 2 = 1 THEN S_10K ELSE S_4

Patterns == 1..6

Column(n, base) == JsArr([i \in 1..n |-> JsNum(base + i)])

\* a history of n filings; the primary-document column is short by `missing`
History(n, p, missing) ==
    [filings |-> [recent |->
        [form |-> JsArr([i \in 1..n |-> JsStr(FormAt(p, i))]),
         accessionNumber |-> Column(n, 0),
         filingDate |-> Column(n, 1000),
         reportDate |-> Column(n, 2000),
         primaryDocument |-> Column(IF n >= missing THEN n - missing ELSE 0, 3000)]]]

Histories ==
    { History(n, p, m) : n \in 0..MaxHistory, p \in Patterns, m \in {0, 1} }
    \cup { [filings |-> Undefined],
           [filings |-> [recent |-> Undefined]],
           [filings |-> [recent |->
               [form |-> Undefined, accessionNumber |-> Column(2, 0),
                filingDate |-> Undefined, reportDate |-> Undefined,
                primaryDocument |-> Undefined]]] }

InitFilter ==
    /\ now = StartTime
    /\ ticks = 0
    /\ tickerMapCache = Null
    /\ tickerMapFetchedAt = 0
    /\ fetchSeq = 0
    /\ req = [r \in Slots |-> Idle]
    /\ input \in Histories
    /\ output = NoOutput

FilterRecent ==
    /\ output = NoOutput
    /\ output' = [filings |-> recentFilings(input)]
    /\ UNCHANGED <<cacheVars, input>>

SpecFilter == InitFilter /\ [][FilterRecent]_vars

\* the columns of a history, and the positions holding form "4" or "4/A"
HasRecent(h) ==
    /\ h.filings # Undefined
    /\ h.filings.recent # Undefined
    /\ h.filings.recent.form # Undefined

FormsOf(h) == IF HasRecent(h) THEN h.filings.recent.form.v ELSE <<>>

Matches(h) ==
    {i \in 1..Len(FormsOf(h)) : StringOf(FormsOf(h)[i]) \in {S_4, S_4A}}

\* the k-th matching position, in source order
KthMatch(h, k) ==
    CHOOSE i \in Matches(h) : Cardinality({j \in Matches(h) : j < i}) = k - 1

ColumnAt(col, i) ==
    IF col = Undefined THEN Undefined
    ELSE IF i <= Len(col.v) THEN col.v[i] ELSE Undefined

\* C5: the result has at most 25 entries, each of form "4" or "4/A"; it is
\* the first 25 matching filings of the whole history in source order, and
\* each entry carries the columns of the position its form type came from.
C5_FirstMatchesUpToLimit ==
    output # NoOutput
    => /\ Len(output.filings) <= Limit
       /\ Len(output.filings) = Min(Cardinality(Matches(input)), Limit)
       /\ \A k \in 1..Len(output.filings) :
            LET i == KthMatch(input, k)
                e == output.filings[k]
                recent == input.filings.recent
            IN  /\ StringOf(e.form) \in {S_4, S_4A}
                /\ e.form = FormsOf(input)[i]
                /\ e.accessionNumber = ColumnAt(recent.accessionNumber, i)
                /\ e.filingDate = ColumnAt(recent.filingDate, i)
                /\ e.reportDate = ColumnAt(recent.reportDate, i)
                /\ e.primaryDocument = ColumnAt(recent.primaryDocument, i)

\* a history whose first 26 filings do not match: the filing at position 27
\* is returned
C5_Witness ==
    /\ output # NoOutput
    /\ HasRecent(input)
    /\ Len(FormsOf(input)) > Limit + 1
    /\ \A i \in 1..(Limit + 1) : i \notin Matches(input)
    /\ Len(output.filings) > 0
    /\ output.filings[1].accessionNumber = JsNum(Limit + 2)

(***************************************************************************)
(* The transaction normalizer and classifier of getForm4Details, as a      *)
(* function of the parsed document's non-derivative table.                 *)
(***************************************************************************)
MaxTxns == 2

JsObj(p) == [t |-> "obj", p |-> p]

\* o?.f
Get(o, f) == IF o.t = "obj" THEN o.p[f] ELSE Undefined

\* !x
Falsy(x) ==
    \/ x = Undefined
    \/ x = Null
    \/ x = JsStr(<<>>)
    \/ (x.t = "num" /\ x.v = 0)
    \/ x = NaN

toArray(x) == IF Falsy(x) THEN <<>> ELSE IF x.t = "arr" THEN x.v ELSE <<x>>

RECURSIVE Trim(_)
Trim(s) ==
    IF s = <<>> THEN s
    ELSE IF Head(s) = " " THEN Trim(Tail(s))
    ELSE IF s[Len(s)] = " " THEN Trim(SubSeq(s, 1, Len(s) - 1))
    ELSE s

Unsigned(s) == IF s # <<>> /\ Head(s) \in {"+", "-"} THEN Tail(s) ELSE s

\* digits with at most one ".", and at least one digit
IsDecimalLiteral(s) ==
    /\ \A i \in 1..Len(s) : IsIn(s[i], DigitChars) \/ s[i] = "."
    /\ Cardinality({i \in 1..Len(s) : s[i] = "."}) <= 1
    /\ \E i \in 1..Len(s) : IsIn(s[i], DigitChars)

RECURSIVE DigitsValue(_)
DigitsValue(s) ==
    IF s = <<>> THEN 0
    ELSE 10 * DigitsValue(SubSeq(s, 1, Len(s) - 1)) + (IndexIn(s[Len(s)], DigitChars) - 1)

RECURSIVE Normal(_)
Normal(n) ==
    IF n.e > 0 /\ n.v % 10 = 0 THEN Normal(JsDec(n.v \div 10, n.e - 1)) ELSE n

S_Infinity == <<"I", "n", "f", "i", "n", "i", "t", "y">>

\* Number(s) of a string: blank is 0, a decimal literal its value,
\* "Infinity" infinite, anything else NaN
StringToNumber(s) ==
    LET t == Trim(s)
        u == Unsigned(t)
        digits == SelectSeq(u, LAMBDA c : c # ".")
        dots == {i \in 1..Len(u) : u[i] = "."}
        places == IF dots = {} THEN 0 ELSE Len(u) - (CHOOSE i \in dots : TRUE)
        sign == IF t # <<>> /\ Head(t) = "-" THEN -1 ELSE 1
    IN  IF t = <<>> THEN JsNum(0)
        ELSE IF u = S_Infinity THEN Infinity
        ELSE IF IsDecimalLiteral(u) THEN Normal(JsDec(sign * DigitsValue(digits), places))
        ELSE NaN

\* Number(v)
ToNumber(v) ==
    CASE v.t = "num" -> v
      [] v.t = "str" -> StringToNumber(v.v)
      [] v.t = "null" -> JsNum(0)
      [] OTHER -> NaN

IsFinite(n) == n.t = "num"

\* numOrUndef
numOrUndef(v) ==
    IF v = Null \/ v = Undefined THEN Undefined
    ELSE IF IsFinite(ToNumber(v)) THEN ToNumber(v) ELSE Undefined

\* shares * price
Times(a, b) == Normal(JsDec(a.v * b.v, a.e + b.e))

\* the total with an absent operand counted as 0
totalValueOrZero(shares, price) ==
    Times(Coalesce(shares, JsNum(0)), Coalesce(price, JsNum(0)))

\* shares !== undefined && price !== undefined ? shares * price : undefined
totalValueOf(shares, price) ==
    IF shares # Undefined /\ price # Undefined THEN Times(shares, price)
    ELSE Undefined

\* the callback of nonDerivTxns.map
normalizeTxn(t) ==
    LET amounts == Get(t, "transactionAmounts")
        shares == numOrUndef(Get(Get(amounts, "transactionShares"), "value"))
        price == numOrUndef(Get(Get(amounts, "transactionPricePerShare"), "value"))
    IN  [securityTitle |-> Get(Get(t, "securityTitle"), "value"),
         transactionDate |-> Get(Get(t, "transactionDate"), "value"),
         transactionCode |-> Get(Get(t, "transactionCoding"), "transactionCode"),
         acquiredDisposed |->
            Get(Get(amounts, "transactionAcquiredDisposedCode"), "value"),
         shares |-> shares,
         price |-> price,
         totalValue |-> totalValueOf(shares, price),
         ownershipType |->
            Get(Get(Get(t, "ownershipNature"), "directOrIndirectOwnership"), "value")]

S_P == <<"P">>
S_S == <<"S">>
S_M == <<"M">>
S_A == <<"A">>
S_D == <<"D">>

\* a buy only when it is not also a sell
isBuyExclusive(x) ==
    /\ x.transactionCode = JsStr(S_P) \/ x.acquiredDisposed = JsStr(S_A)
    /\ ~(x.transactionCode = JsStr(S_S) \/ x.acquiredDisposed = JsStr(S_D))

\* x.transactionCode === "P" || x.acquiredDisposed === "A"
isBuy(x) == x.transactionCode = JsStr(S_P) \/ x.acquiredDisposed = JsStr(S_A)

\* x.transactionCode === "S" || x.acquiredDisposed === "D"
isSell(x) == x.transactionCode = JsStr(S_S) \/ x.acquiredDisposed = JsStr(S_D)

\* getForm4Details from the non-derivative table on
form4Details(nonDerivTable) ==
    LET nonDerivTxns == toArray(Get(nonDerivTable, "nonDerivativeTransaction"))
        parsed == [i \in 1..Len(nonDerivTxns) |-> normalizeTxn(nonDerivTxns[i])]
        buys == SelectSeq(parsed, isBuy)
        sells == SelectSeq(parsed, isSell)
    IN  [transactions |-> parsed,
         summary |-> [count |-> Len(parsed), buys |-> Len(buys), sells |-> Len(sells)]]

S_NA == <<"N", "/", "A">>
S_12p5 == <<"1", "2", ".", "5">>
S_Common == <<"C", "o", "m">>

Valued(v) == JsObj([value |-> v])

\* what the XML parser leaves in place of <transactionShares>
ShareFields ==
    { Undefined, Valued(Undefined), Valued(JsNum(100)), Valued(JsNum(0)),
      Valued(JsStr(<<>>)), Valued(JsStr(S_NA)) }

\* and in place of <transactionPricePerShare>
PriceFields ==
    { Undefined, Valued(Undefined), Valued(JsDec(125, 1)), Valued(JsStr(S_12p5)),
      Valued(JsStr(<<>>)), Valued(JsStr(S_Infinity)), Valued(Valued(JsNum(5))) }

CodeFields ==
    { Undefined, JsObj([transactionCode |-> Undefined]) }
    \cup { JsObj([transactionCode |-> JsStr(c)]) : c \in {S_P, S_S, S_M} }

AmountFields ==
    { Undefined }
    \cup { JsObj([transactionShares |-> sh, transactionPricePerShare |-> pr,
                  transactionAcquiredDisposedCode |-> ad]) :
             sh \in ShareFields, pr \in PriceFields,
             ad \in {Undefined, Valued(JsStr(S_A)), Valued(JsStr(S_D))} }

RawTxn(coding, amounts) ==
    JsObj([securityTitle |-> Valued(JsStr(S_Common)),
           transactionDate |-> Undefined,
           transactionCoding |-> coding,
           transactionAmounts |-> amounts,
           ownershipNature |-> JsObj([directOrIndirectOwnership |-> Valued(JsStr(S_D))])])

RawTxns == { RawTxn(c, a) : c \in CodeFields, a \in AmountFields }

\* the transactions that follow the first one of a table
MoreTxns ==
    { RawTxn(JsObj([transactionCode |-> JsStr(S_S)]),
             JsObj([transactionShares |-> Valued(JsNum(100)),
                    transactionPricePerShare |-> Valued(JsDec(125, 1)),
                    transactionAcquiredDisposedCode |-> Valued(JsStr(S_A))])),
      RawTxn(JsObj([transactionCode |-> JsStr(S_P)]), Undefined),
      RawTxn(Undefined,
             JsObj([transactionShares |-> Valued(JsNum(7)),
                    transactionPricePerShare |-> Undefined,
                    transactionAcquiredDisposedCode |-> Valued(JsStr(S_D))])) }

TxnLists ==
    { <<t>> \o rest : t \in RawTxns, rest \in SeqsUpTo(MoreTxns, MaxTxns - 1) }

\* root?.nonDerivativeTable: absent, an empty element, one transaction, several
Tables ==
    { Undefined, JsStr(<<>>), JsObj([nonDerivativeTransaction |-> Undefined]) }
    \cup { JsObj([nonDerivativeTransaction |-> t]) : t \in RawTxns }
    \cup { JsObj([nonDerivativeTransaction |-> JsArr(l)]) : l \in TxnLists }

InitDetails ==
    /\ now = StartTime
    /\ ticks = 0
    /\ tickerMapCache = Null
    /\ tickerMapFetchedAt = 0
    /\ fetchSeq = 0
    /\ req = [r \in Slots |-> Idle]
    /\ input \in Tables
    /\ output = NoOutput

GetDetails ==
    /\ output = NoOutput
    /\ output' = form4Details(input)
    /\ UNCHANGED <<cacheVars, input>>

SpecDetails == InitDetails /\ [][GetDetails]_vars

Transactions == output.transactions

\* C6: the buy tally is the number of transactions whose code is "P" or
\* whose acquired/disposed code is "A", the sell tally the number whose code
\* is "S" or whose acquired/disposed code is "D"; a transaction with code "S"
\* and acquired/disposed "A" is in both; count is the number of transactions
\* and bounds each tally.
C6_BuySellTallies ==
    output # NoOutput
    => LET buyers == {i \in 1..Len(Transactions) :
                        \/ StringOf(Transactions[i].transactionCode) = S_P
                        \/ StringOf(Transactions[i].acquiredDisposed) = S_A}
           sellers == {i \in 1..Len(Transactions) :
                        \/ StringOf(Transactions[i].transactionCode) = S_S
                        \/ StringOf(Transactions[i].acquiredDisposed) = S_D}
       IN  /\ output.summary.buys = Cardinality(buyers)
           /\ output.summary.sells = Cardinality(sellers)
           /\ output.summary.count = Len(Transactions)
           /\ output.summary.buys <= output.summary.count
           /\ output.summary.sells <= output.summary.count
           /\ \A i \in 1..Len(Transactions) :
                (/\ StringOf(Transactions[i].transactionCode) = S_S
                 /\ StringOf(Transactions[i].acquiredDisposed) = S_A)
                => i \in buyers \cap sellers

\* two transactions, both with code "S" and acquired/disposed "A": two buys
\* and two sells among a count of two
C6_Witness ==
    /\ output # NoOutput
    /\ Len(Transactions) = 2
    /\ \A i \in 1..2 :
         /\ Transactions[i].transactionCode = JsStr(S_S)
         /\ Transactions[i].acquiredDisposed = JsStr(S_A)
    /\ output.summary = [count |-> 2, buys |-> 2, sells |-> 2]

RECURSIVE Pow10(_)
Pow10(k) == IF k = 0 THEN 1 ELSE 10 * Pow10(k - 1)

\* a = b * c, as numbers
IsProduct(a, b, c) == a.v * Pow10(b.e + c.e) = b.v * c.v * Pow10(a.e)

\* C7: a normalized transaction has a totalValue iff it has both shares and
\* a price, and then totalValue is shares times price: 100 shares at 12.5 give
\* 1250.
C7_TotalValue ==
    output # NoOutput
    => \A i \in 1..Len(Transactions) :
         LET x == Transactions[i]
         IN  /\ (x.totalValue # Undefined) <=> (x.shares # Undefined /\ x.price # Undefined)
             /\ x.totalValue # Undefined => IsProduct(x.totalValue, x.shares, x.price)
             /\ (x.shares = JsNum(100) /\ x.price = JsDec(125, 1))
                => x.totalValue = JsNum(1250)

\* 100 shares at 12.5 with total 1250, beside a transaction with shares, no
\* price and no total
C7_Witness ==
    /\ output # NoOutput
    /\ Len(Transactions) = 2
    /\ Transactions[1].shares = JsNum(100)
    /\ Transactions[1].price = JsDec(125, 1)
    /\ Transactions[1].totalValue = JsNum(1250)
    /\ Transactions[2].shares = JsNum(7)
    /\ Transactions[2].price = Undefined
    /\ Transactions[2].totalValue = Undefined

\* the source value of a numeric field: t?.transactionAmounts?.<field>?.value
SourceValue(t, field) == Get(Get(Get(t, "transactionAmounts"), field), "value")

\* the value is a number, or text that spells a finite number
SpellsNumber(v) ==
    \/ v.t = "num"
    \/ /\ v.t = "str"
       /\ Trim(v.v) # <<>>
       /\ IsDecimalLiteral(Unsigned(Trim(v.v)))

\* C8: a shares or price value that is absent at any level, blank, or not the
\* text of a finite number is normalized to an absent field, never to 0.
C8_NonNumericIsAbsent ==
    output # NoOutput
    => LET raw == toArray(Get(input, "nonDerivativeTransaction"))
       IN  \A i \in 1..Len(raw) :
             /\ ~SpellsNumber(SourceValue(raw[i], "transactionShares"))
                => Transactions[i].shares = Undefined
             /\ ~SpellsNumber(SourceValue(raw[i], "transactionPricePerShare"))
                => Transactions[i].price = Undefined

(***************************************************************************)
(* The requests for a filing's document: locateXml, getXml and getDetails  *)
(* over findForm4XmlUrl, fetchForm4Xml and getForm4Details.  Each suspends *)
(* at the fetch of the directory listing and at the fetch of the document. *)
(***************************************************************************)
S_EdgarData ==
    <<"h", "t", "t", "p", "s", ":", "/", "/", "w", "w", "w", ".", "s", "e",
      "c", ".", "g", "o", "v", "/", "A", "r", "c", "h", "i", "v", "e", "s",
      "/", "e", "d", "g", "a", "r", "/", "d", "a", "t", "a", "/">>

S_indexJson == <<"/", "i", "n", "d", "e", "x", ".", "j", "s", "o", "n">>
S_NaN == <<"N", "a", "N">>
S_accession == <<"1", "-", "2", "4", "-", "3">>
S_form4Text == <<"<", "a", "/", ">">>

\* String(Number(cik10))
cik10ToIntString(cik10) ==
    LET n == StringToNumber(cik10)
    IN  IF n.t = "num" /\ n.e = 0 /\ n.v >= 0 THEN NumToDigits(n.v) ELSE S_NaN

\* accession.replace(/-/g, "")
accessionNoDashes(accession) == SelectSeq(accession, LAMBDA c : c # "-")

filingBaseUrl(cik10, accession) ==
    S_EdgarData \o cik10ToIntString(cik10) \o <<"/">> \o accessionNoDashes(accession)

\* idx?.directory?.item || []
ItemsOf(idx) ==
    LET item == Get(Get(idx, "directory"), "item")
    IN  IF Falsy(item) THEN <<>> ELSE item.v

\* findForm4XmlUrl once the listing has been fetched, with the addresses
findForm4XmlUrl(cik10, accession, items) ==
    LET baseUrl == filingBaseUrl(cik10, accession)
        found == findForm4Xml(items)
    IN  IF IsError(found) THEN found
        ELSE [baseUrl |-> baseUrl,
              indexUrl |-> baseUrl \o S_indexJson,
              xmlUrl |-> baseUrl \o <<"/">> \o found.xmlFilename,
              xmlFilename |-> found.xmlFilename]

\* owners.map(...) of getForm4Details
reportingOwners(root) ==
    LET owners == toArray(Get(root, "reportingOwner"))
    IN  [i \in 1..Len(owners) |->
            LET id == Get(owners[i], "reportingOwnerId")
            IN  [name |-> Coalesce(Get(id, "rptOwnerName"), Get(id, "reportingOwnerName")),
                 cik |-> Coalesce(Get(id, "rptOwnerCik"), Get(id, "reportingOwnerCik")),
                 relationship |-> Coalesce(Get(owners[i], "reportingOwnerRelationship"),
                                           JsObj(<<>>))]]

\* getForm4Details once the document has been fetched and parsed
getForm4Details(cik, accession, xmlUrl, doc) ==
    LET root == Coalesce(Get(doc, "ownershipDocument"),
                         Coalesce(Get(doc, "OwnershipDocument"), doc))
        details == form4Details(Get(root, "nonDerivativeTable"))
    IN  [cik |-> cik,
         accession |-> accession,
         sourceXml |-> xmlUrl,
         issuer |-> [issuerName |-> Get(Get(root, "issuer"), "issuerName"),
                     issuerTradingSymbol |-> Get(Get(root, "issuer"), "issuerTradingSymbol")],
         reportingOwners |-> reportingOwners(root),
         transactions |-> details.transactions,
         summary |-> details.summary]

DocKinds == {"locate", "xml", "details"}

\* req.query.cik and req.query.accession; an absent parameter reads as ""
CikInputs == {<<>>, S_0000320193}

AccessionInputs == {<<>>, S_accession}

Entry(f) == [name |-> JsStr(f)]

\* the directory listings the archive answers with in this specification
IndexBodies ==
    { JsObj([directory |-> Undefined]) }
    \cup { JsObj([directory |-> JsObj([item |-> JsArr(l)])]) :
             l \in { <<>>,
                     <<Entry(F_form4txt), [name |-> Undefined]>>,
                     <<Entry(F_Doc1Upper)>>,
                     <<Entry(F_random), Entry(F_doc1), Entry(F_form4)>> } }

IndexResponses ==
    {[ok |-> FALSE, data |-> Null]} \cup {[ok |-> TRUE, data |-> d] : d \in IndexBodies}

Owner ==
    JsObj([reportingOwnerId |->
               JsObj([rptOwnerName |-> JsStr(S_Common), reportingOwnerName |-> Undefined,
                      rptOwnerCik |-> Undefined, reportingOwnerCik |-> JsNum(320193)]),
           reportingOwnerRelationship |-> Undefined])

\* what the XML parser makes of the document: an ownership document with one
\* sale, and a document of some other kind
ParsedDocuments ==
    { JsObj([ownershipDocument |->
                 JsObj([issuer |-> JsObj([issuerName |-> JsStr(S_Common),
                                          issuerTradingSymbol |-> JsStr(S_AAPL)]),
                        reportingOwner |-> Owner,
                        nonDerivativeTable |->
                            JsObj([nonDerivativeTransaction |->
                                RawTxn(JsObj([transactionCode |-> JsStr(S_S)]),
                                       JsObj([transactionShares |-> Valued(JsNum(7)),
                                              transactionPricePerShare |-> Undefined,
                                              transactionAcquiredDisposedCode |->
                                                  Valued(JsStr(S_D))]))])]),
             OwnershipDocument |-> Undefined]),
      JsObj([ownershipDocument |-> Undefined, OwnershipDocument |-> Undefined,
             issuer |-> Undefined, reportingOwner |-> Undefined,
             nonDerivativeTable |-> Undefined]) }

DocumentResponses ==
    {[ok |-> FALSE, xmlText |-> Null, doc |-> Null]}
    \cup {[ok |-> TRUE, xmlText |-> S_form4Text, doc |-> d] : d \in ParsedDocuments}

\* locateXml, getXml, getDetails up to the fetch of the directory listing
StartDocRequest(r, kind, cik, accession) ==
    /\ req[r].pc = "idle"
    /\ req' = [req EXCEPT ![r] =
            IF cik = <<>> \/ accession = <<>>
            THEN [Idle EXCEPT !.pc = "done", !.kind = kind, !.status = 400,
                              !.result = [error |->
                                  "Missing required query params: cik, accession"]]
            ELSE [Idle EXCEPT !.pc = "awaitIndex", !.kind = kind, !.cik = cik,
                              !.accession = accession,
                              !.fetches = Issue(<<>>, "index")]]
    /\ UNCHANGED <<now, ticks, tickerMapCache, tickerMapFetchedAt, fetchSeq,
                   input, output>>

\* the fetch of the directory listing returns; findForm4XmlUrl chooses the
\* file, and fetchForm4Xml goes on to fetch it
IndexReturns(r, res) ==
    /\ req[r].pc = "awaitIndex"
    /\ req' = [req EXCEPT ![r] =
            IF ~res.ok THEN FailFetch(r, "SEC request failed")
            ELSE LET items == ItemsOf(res.data)
                     out == findForm4XmlUrl(req[r].cik, req[r].accession, items)
                     settled == Settle(req[r].fetches, TRUE)
                 IN  IF IsError(out)
                     THEN [Fail(r, out.error) EXCEPT !.items = items,
                                                     !.fetches = settled]
                     ELSE IF req[r].kind = "locate"
                     THEN [req[r] EXCEPT !.pc = "done", !.status = 200,
                                         !.result = out, !.items = items,
                                         !.fetches = settled]
                     ELSE [req[r] EXCEPT !.pc = "awaitDocument", !.result = out,
                                         !.items = items,
                                         !.fetches = Issue(settled, "document")]]
    /\ UNCHANGED <<now, ticks, tickerMapCache, tickerMapFetchedAt, fetchSeq,
                   input, output>>

\* the fetch of the document returns; getXml sends the text with the two
\* headers, getDetails parses and normalizes it
DocumentReturns(r, res) ==
    /\ req[r].pc = "awaitDocument"
    /\ req' = [req EXCEPT ![r] =
            IF ~res.ok THEN FailFetch(r, "SEC request failed")
            ELSE IF req[r].kind = "xml"
            THEN [req[r] EXCEPT
                    !.pc = "done", !.status = 200,
                    !.fetches = Settle(req[r].fetches, TRUE),
                    !.result = [xmlText |-> res.xmlText,
                                edgarBase |-> req[r].result.baseUrl,
                                edgarXmlFile |-> req[r].result.xmlFilename]]
            ELSE [req[r] EXCEPT
                    !.pc = "done", !.status = 200,
                    !.fetches = Settle(req[r].fetches, TRUE),
                    !.result = getForm4Details(req[r].cik, req[r].accession,
                                               req[r].result.xmlUrl, res.doc)]]
    /\ UNCHANGED <<now, ticks, tickerMapCache, tickerMapFetchedAt, fetchSeq,
                   input, output>>

\* every route of the service, two requests at a time
NextPipeline ==
    \/ \E r \in Slots, kind \in Kinds, tickerRaw \in TickerInputs :
          StartRequest(r, kind, tickerRaw)
    \/ \E r \in Slots, res \in RegistryResponses : RegistryReturns(r, res)
    \/ \E r \in Slots : Lookup(r)
    \/ \E r \in Slots, res \in SubmissionsResponses : SubmissionsReturns(r, res)
    \/ \E r \in Slots, kind \in DocKinds, cik \in CikInputs, accession \in AccessionInputs :
          StartDocRequest(r, kind, cik, accession)
    \/ \E r \in Slots, res \in IndexResponses : IndexReturns(r, res)
    \/ \E r \in Slots, res \in DocumentResponses : DocumentReturns(r, res)
    \/ \E r \in Slots : Finish(r)

SpecPipeline == Init /\ [][NextPipeline]_vars

(***************************************************************************)
(* Properties of whole requests.                                           *)
(***************************************************************************)
\* the fields of the success value of each route
SuccessFields(kind) ==
    CASE kind = "cik" -> {"ticker", "cik"}
      [] kind = "recent" -> {"ticker", "cik", "filings"}
      [] kind = "locate" -> {"baseUrl", "indexUrl", "xmlUrl", "xmlFilename"}
      [] kind = "xml" -> {"xmlText", "edgarBase", "edgarXmlFile"}
      [] kind = "details" -> {"cik", "accession", "sourceXml", "issuer",
                              "reportingOwners", "transactions", "summary"}

Range(fetches) == {fetches[i] : i \in 1..Len(fetches)}

StepsOf(fetches) == {fetches[i].step : i \in 1..Len(fetches)}

\* the request has received a directory listing without any ".xml" file
NoXmlListed(r) ==
    /\ req[r].kind \in DocKinds
    /\ [step |-> "index", outcome |-> "ok"] \in Range(req[r].fetches)
    /\ XmlNames(req[r].items) = {}

\* C11: a request that has ended has answered with exactly one of a whole
\* success value (status 200, every field of its route, no error) or one
\* error and nothing else; no answer exists before the end.  A request whose
\* directory listing has no file ending in ".xml" in any letter case, an
\* empty listing included, ends with the no-XML-files error, with no
\* location, and without having issued a document fetch.
C11_NoPartialResults ==
    \A r \in Slots :
        /\ req[r].pc # "done" => req[r].status = 0
        /\ req[r].pc = "done"
           => \/ /\ req[r].status = 200
                 /\ DOMAIN req[r].result = SuccessFields(req[r].kind)
              \/ /\ req[r].status \in {400, 404, 500}
                 /\ DOMAIN req[r].result = {"error"}
        /\ NoXmlListed(r)
           => /\ req[r].pc = "done"
              /\ req[r].result = [error |-> "No XML files found in index.json"]
              /\ "document" \notin StepsOf(req[r].fetches)

\* a locate request has ended in the no-XML-files error on a listing whose
\* only named file is "form4.txt", while another has ended on an empty listing
C11_Witness ==
    \E r, q \in Slots :
        /\ req[r].pc = "done" /\ req[r].kind = "locate"
        /\ req[r].items = <<Entry(F_form4txt), [name |-> Undefined]>>
        /\ req[r].result = [error |-> "No XML files found in index.json"]
        /\ req[r].fetches = <<[step |-> "index", outcome |-> "ok"]>>
        /\ req[q].pc = "done" /\ req[q].kind = "details"
        /\ req[q].items = <<>>
        /\ req[q].fetches = <<[step |-> "index", outcome |-> "ok"]>>
        /\ req[q].status = 500

\* the upstream steps of each route, in the order the code awaits them
Chain(kind) ==
    CASE kind = "cik" -> <<"registry">>
      [] kind = "recent" -> <<"registry", "submissions">>
      [] kind = "locate" -> <<"index">>
      [] OTHER -> <<"index", "document">>

PlaceIn(chain, step) == CHOOSE k \in 1..Len(chain) : chain[k] = step

\* where a request waits for the answer to a step
AwaitOf(step) ==
    CASE step = "registry" -> "awaitRegistry"
      [] step = "submissions" -> "awaitSubmissions"
      [] step = "index" -> "awaitIndex"
      [] OTHER -> "awaitDocument"

AwaitStates == {"awaitRegistry", "awaitSubmissions", "awaitIndex", "awaitDocument"}

\* the fetches of one request at one moment
FetchesInSequence(r) ==
    LET f == req[r].fetches
        chain == Chain(req[r].kind)
    IN  /\ \A i \in 1..Len(f) : f[i].step \in {chain[k] : k \in 1..Len(chain)}
        /\ \A i, j \in 1..Len(f) :
              i < j => PlaceIn(chain, f[i].step) < PlaceIn(chain, f[j].step)
        /\ req[r].kind \in DocKinds => \A i \in 1..Len(f) : f[i].step = chain[i]
        /\ \A i \in 1..(Len(f) - 1) : f[i].outcome = "ok"
        /\ \A i \in 1..Len(f) :
              /\ f[i].outcome = "pending" => req[r].pc = AwaitOf(f[i].step)
              /\ f[i].outcome = "failed"
                 => /\ req[r].pc = "done"
                    /\ req[r].status = 500
                    /\ DOMAIN req[r].result = {"error"}
        /\ req[r].pc \in AwaitStates
           => /\ Len(f) > 0
              /\ f[Len(f)] = [step |-> f[Len(f)].step, outcome |-> "pending"]
              /\ req[r].pc = AwaitOf(f[Len(f)].step)

\* what one step of the service does to the fetches of one request
FetchesStep(r) ==
    LET f == req[r].fetches
        g == req'[r].fetches
    IN  /\ req[r].pc = "done" => req'[r] \in {req[r], Idle}
        /\ \/ g = f
           \/ req'[r] = Idle
           \/ /\ Len(f) > 0 /\ f[Len(f)].outcome = "pending"
              /\ g \in {Settle(f, FALSE), Settle(f, TRUE)}
           \/ /\ \E step \in {"registry", "submissions", "index", "document"} :
                    \/ g = Issue(f, step)
                    \/ /\ Len(f) > 0 /\ f[Len(f)].outcome = "pending"
                       /\ g = Issue(Settle(f, TRUE), step)
              /\ req'[r].pc \in AwaitStates

\* C12: within one request each upstream step (registry, filing history,
\* index, document) is issued at most once and in the order of the route; a
\* step is issued only when every earlier fetch of the request has come back
\* with a success status, one fetch is in flight at a time, and a fetch that
\* comes back with another status ends the request with an error: no fetch
\* is issued by that request afterwards.
C12_SequentialNoRetry ==
    /\ [](\A r \in Slots : FetchesInSequence(r))
    /\ [][\A r \in Slots : FetchesStep(r)]_vars

\* an xml request has ended on a failed document fetch after a successful
\* index fetch, while a recent-filings request waits for the filing history
\* after fetching the registry
C12_Witness ==
    \E r, q \in Slots :
        /\ req[r].pc = "done" /\ req[r].kind = "xml" /\ req[r].status = 500
        /\ req[r].fetches = <<[step |-> "index", outcome |-> "ok"],
                              [step |-> "document", outcome |-> "failed"]>>
        /\ req[q].kind = "recent"
        /\ req[q].fetches = <<[step |-> "registry", outcome |-> "ok"],
                              [step |-> "submissions", outcome |-> "pending"]>>

====
